---------------------------- MODULE Spec2Model ----------------------------
(***************************************************************************)
(* Model of the block-record indexer of nockchain-rpc (src/src/main.rs):   *)
(* the length-prefixed record decoder Page::from_bytes, the renderer       *)
(* Page::to_block, the two store lookups Page::query_by_height and         *)
(* Page::query_by_digest, and the two gRPC handlers get_block_by_height    *)
(* and get_block_by_digest running concurrently over one read-only store.  *)
(*                                                                         *)
(* A byte string (Vec<u8>, &[u8], a String as its UTF-8 bytes) is a        *)
(* sequence of numbers in 0..255.  An Option is <<>> (None) or <<x>>.      *)
(***************************************************************************)
EXTENDS Integers, Sequences, FiniteSets, TLC

\* ------------------------------------------------------------------------
\* Byte strings
\* ------------------------------------------------------------------------

\* &s[a..b]: the bytes from index a (counted from 0) up to, not including, b.
Slice(s, a, b) == SubSeq(s, a + 1, b)

\* &s[k..]
DropBytes(s, k) == SubSeq(s, k + 1, Len(s))

\* n copies of the byte b.
Fill(b, n) == [i \in 1..n |-> b]

\* str::starts_with on the UTF-8 bytes.
StartsWith(s, p) == Len(s) >= Len(p) /\ SubSeq(s, 1, Len(p)) = p

Pow2(k) == 2 ^ k

Max(a, b) == IF a >= b THEN a ELSE b

Min(a, b) == IF a <= b THEN a ELSE b

\* ------------------------------------------------------------------------
\* hex (the hex crate) and decimal formatting (ToString for u64 and UBig)
\* ------------------------------------------------------------------------

\* One hex digit of hex::encode: lower case.
HexChar(v) == IF v < 10 THEN 48 + v ELSE 87 + v

\* hex::encode: two lower-case digits per byte, high nibble first.
hex_encode(bytes) ==
    [i \in 1..(2 * Len(bytes)) |->
        IF i % 2 = 1 THEN HexChar(bytes[(i + 1) \div 2] \div 16)
                     ELSE HexChar(bytes[i \div 2] % 16)]

\* The value of one hex digit, either case; -1 for any other byte.
HexVal(c) ==
    IF c >= 48 /\ c <= 57 THEN c - 48
    ELSE IF c >= 97 /\ c <= 102 THEN c - 87
    ELSE IF c >= 65 /\ c <= 70 THEN c - 55
    ELSE -1

\* A decoder that takes the low nibble of each byte first.
hex_decode_swapped(q) ==
    IF Len(q) % 2 = 1 THEN [ok |-> FALSE, err |-> "OddLength"]
    ELSE IF \E i \in 1..Len(q) : HexVal(q[i]) = -1
         THEN [ok |-> FALSE, err |-> "InvalidHexCharacter"]
         ELSE [ok |-> TRUE,
               val |-> [i \in 1..(Len(q) \div 2) |->
                           HexVal(q[2 * i - 1]) + 16 * HexVal(q[2 * i])]]

\* hex::decode: OddLength is decided first, then every digit must be hex.
hex_decode(q) ==
    IF Len(q) % 2 = 1 THEN [ok |-> FALSE, err |-> "OddLength"]
    ELSE IF \E i \in 1..Len(q) : HexVal(q[i]) = -1
         THEN [ok |-> FALSE, err |-> "InvalidHexCharacter"]
         ELSE [ok |-> TRUE,
               val |-> [i \in 1..(Len(q) \div 2) |->
                           16 * HexVal(q[2 * i - 1]) + HexVal(q[2 * i])]]

RECURSIVE DecDigits(_)
\* The decimal digits of a natural number, most significant first.
DecDigits(n) == IF n < 10 THEN <<48 + n>> ELSE Append(DecDigits(n \div 10), 48 + (n % 10))

\* u64::to_string (the height keys of height_to_digest).
u64_to_string(n) == DecDigits(n)

RECURSIVE StripZeros(_)
\* A little-endian magnitude without its high zero bytes.
StripZeros(le) ==
    IF le # <<>> /\ le[Len(le)] = 0 THEN StripZeros(SubSeq(le, 1, Len(le) - 1)) ELSE le

RECURSIVE DivTen(_, _, _, _)
\* Long division of a little-endian magnitude by ten, from the high byte down:
\* the quotient (little-endian) and the remainder.
DivTen(le, i, quo, rem) ==
    IF i = 0 THEN [quo |-> StripZeros(quo), rem |-> rem]
    ELSE DivTen(le, i - 1, <<(rem * 256 + le[i]) \div 10>> \o quo, (rem * 256 + le[i]) % 10)

RECURSIVE MagDigits(_)
\* The decimal digits of a little-endian magnitude of any size.
MagDigits(le) ==
    LET Go(d) == IF d.quo = <<>> THEN <<48 + d.rem>>
                 ELSE Append(MagDigits(d.quo), 48 + d.rem)
    IN  Go(DivTen(le, Len(le), <<>>, 0))

\* ------------------------------------------------------------------------
\* Nouns and the external jam/cue scheme (nockvm, reached through
\* JammedNoun::cue_self and NounExt::jam_self).  An atom is <<"atom", le>>,
\* le its little-endian bytes without high zeros; a cell is <<"cell", h, t>>.
\* ------------------------------------------------------------------------

Atom(le) == <<"atom", StripZeros(le)>>

Cell(h, t) == <<"cell", h, t>>

IsAtom(noun) == noun[1] = "atom"

\* Bit i (from 0, least significant first) of a byte string; zero past its end.
BitAt(p, i) ==
    IF i \div 8 < Len(p) THEN (p[i \div 8 + 1] \div Pow2(i % 8)) % 2 ELSE 0

\* The position of the first set bit at or after c; -1 when there is none.
FirstOne(p, c) ==
    IF \A i \in c..(8 * Len(p) - 1) : BitAt(p, i) = 0 THEN -1
    ELSE CHOOSE i \in c..(8 * Len(p) - 1) :
             BitAt(p, i) = 1 /\ \A j \in c..(i - 1) : BitAt(p, j) = 0

RECURSIVE BitsToNat(_, _, _)
\* The number held in the n bits from position c, least significant first.
BitsToNat(p, c, n) == IF n = 0 THEN 0 ELSE BitAt(p, c) + 2 * BitsToNat(p, c + 1, n - 1)

\* The widest length header the model reads: a wider one announces an atom of
\* 2^24 bits or more, which no field of at most MAX_FIELD_LEN bytes holds in
\* full.
MaxSizeBits == 24

\* get_size: b zero bits, a one, then the low b-1 bits of the length.
get_size(p, c) ==
    LET Go(f) ==
            IF f = -1 \/ f - c > MaxSizeBits THEN [ok |-> FALSE]
            ELSE IF f = c THEN [ok |-> TRUE, size |-> 0, cur |-> c + 1]
            ELSE [ok |-> TRUE,
                  size |-> Pow2(f - c - 1) + BitsToNat(p, f + 1, f - c - 1),
                  cur |-> f + (f - c)]
    IN  Go(FirstOne(p, c))

\* The little-endian bytes of the size bits from position c.
BitsToBytes(p, c, size) ==
    StripZeros([j \in 1..((Min(size, Max(0, 8 * Len(p) - c)) + 7) \div 8) |->
                  BitsToNat(p, c + 8 * (j - 1), Min(8, size - 8 * (j - 1)))])

\* rub_atom: a length header and that many bits of magnitude.
rub_atom(p, c) ==
    LET Go(s) ==
            IF ~s.ok THEN [ok |-> FALSE]
            ELSE [ok |-> TRUE, noun |-> <<"atom", BitsToBytes(p, s.cur, s.size)>>,
                  cur |-> s.cur + s.size]
    IN  Go(get_size(p, c))

\* The entry of a back-reference table (a sequence of <<key, value>>) for k.
Lookup(m, k) ==
    IF \A i \in 1..Len(m) : m[i][1] # k THEN <<>>
    ELSE <<m[CHOOSE i \in 1..Len(m) : m[i][1] = k][2]>>

\* The number a little-endian magnitude of at most three bytes holds.
SmallNat(le) ==
    (IF Len(le) >= 1 THEN le[1] ELSE 0) + (IF Len(le) >= 2 THEN 256 * le[2] ELSE 0)
        + (IF Len(le) >= 3 THEN 65536 * le[3] ELSE 0)

RECURSIVE cue_at(_, _, _)
\* cue from bit position c with the back-reference table m (position -> noun):
\* tag 0 an atom, tag 1,0 a cell, tag 1,1 a reference to an earlier position.
cue_at(p, c, m) ==
    LET AtomAt(a) ==
            IF ~a.ok THEN [ok |-> FALSE]
            ELSE [ok |-> TRUE, noun |-> a.noun, cur |-> a.cur,
                  map |-> Append(m, <<c, a.noun>>)]
        TailAt(h, t) ==
            IF ~t.ok THEN [ok |-> FALSE]
            ELSE [ok |-> TRUE, noun |-> <<"cell", h.noun, t.noun>>, cur |-> t.cur,
                  map |-> Append(t.map, <<c, <<"cell", h.noun, t.noun>>>>)]
        HeadAt(h) ==
            IF ~h.ok THEN [ok |-> FALSE] ELSE TailAt(h, cue_at(p, h.cur, h.map))
        Found(r, hit) ==
            IF hit = <<>> THEN [ok |-> FALSE]
            ELSE [ok |-> TRUE, noun |-> hit[1], cur |-> r.cur, map |-> m]
        RefAt(r) ==
            IF ~r.ok THEN [ok |-> FALSE]
            ELSE IF Len(r.noun[2]) > 3 THEN [ok |-> FALSE]
            ELSE Found(r, Lookup(m, SmallNat(r.noun[2])))
    IN  IF BitAt(p, c) = 0 THEN AtomAt(rub_atom(p, c + 1))
        ELSE IF BitAt(p, c + 1) = 0 THEN HeadAt(cue_at(p, c + 2, m))
        ELSE RefAt(rub_atom(p, c + 2))

\* cue: the noun a jammed byte string holds, or a failure.
cue(p) ==
    LET Go(r) == IF r.ok THEN [ok |-> TRUE, noun |-> r.noun] ELSE [ok |-> FALSE]
    IN  Go(cue_at(p, 0, <<>>))

RECURSIVE BitLen(_)
\* The number of significant bits of a natural number.
BitLen(n) == IF n = 0 THEN 0 ELSE 1 + BitLen(n \div 2)

\* met(0, a): the number of significant bits of a little-endian magnitude.
Met0(le) == IF le = <<>> THEN 0 ELSE 8 * (Len(le) - 1) + BitLen(le[Len(le)])

\* The low n bits of a natural number, least significant first.
NatBits(v, n) == [i \in 1..n |-> (v \div Pow2(i - 1)) % 2]

\* The low n bits of a little-endian magnitude, least significant first.
MagBits(le, n) == [i \in 1..n |-> (le[(i + 7) \div 8] \div Pow2((i - 1) % 8)) % 2]

\* mat: the length-prefixed bits of an atom.
mat(le) ==
    LET Go(b, c) == [i \in 1..c |-> 0] \o <<1>> \o NatBits(b, c - 1) \o MagBits(le, b)
    IN  IF le = <<>> THEN <<1>> ELSE Go(Met0(le), BitLen(Met0(le)))

\* A bit position as a little-endian magnitude.
NatMag(n) == StripZeros(<<n % 256, (n \div 256) % 256, n \div 65536>>)

RECURSIVE jam_at(_, _, _)
\* jam of a noun placed at bit position b, with the table m (noun -> position)
\* of the nouns already written: a repeated cell is written as a reference, a
\* repeated atom only when the reference is shorter.
jam_at(noun, b, m) ==
    LET Both(d, e) == [bits |-> <<1, 0>> \o d.bits \o e.bits, map |-> e.map]
        Then(d) == Both(d, jam_at(noun[3], b + 2 + Len(d.bits), d.map))
        Go(c) ==
            IF c = <<>>
            THEN IF IsAtom(noun)
                 THEN [bits |-> <<0>> \o mat(noun[2]), map |-> Append(m, <<noun, b>>)]
                 ELSE Then(jam_at(noun[2], b + 2, Append(m, <<noun, b>>)))
            ELSE IF IsAtom(noun) /\ Met0(noun[2]) <= BitLen(c[1])
                 THEN [bits |-> <<0>> \o mat(noun[2]), map |-> m]
                 ELSE [bits |-> <<1, 1>> \o mat(NatMag(c[1])), map |-> m]
    IN  Go(Lookup(m, noun))

RECURSIVE PackByte(_, _, _)
\* The number held in the bits k..last of a bit sequence, least significant first.
PackByte(bits, k, last) ==
    IF k > last THEN 0 ELSE bits[k] + 2 * PackByte(bits, k + 1, last)

\* jam: the bytes of the jammed noun, least significant bit first.
jam(noun) ==
    LET Go(bits) ==
            [j \in 1..((Len(bits) + 7) \div 8) |->
                PackByte(bits, 8 * (j - 1) + 1, Min(8 * j, Len(bits)))]
    IN  Go(jam_at(noun, 0, <<>>).bits)

\* ------------------------------------------------------------------------
\* NockStack: the arena a request decodes into.  A Noun is a direct atom
\* (below 2^63, held in the handle itself) or a pointer to a noun allocated
\* on the stack it was cued onto.
\* ------------------------------------------------------------------------

\* NockStack::new(8 << 10 << 10, 64): an empty arena.
NockStack_new == <<>>

IsDirect(le) == Len(le) < 8 \/ (Len(le) = 8 /\ le[8] < 128)

\* Allocation of a noun: the handle and the stack after it.
Alloc(stack, noun) ==
    IF IsAtom(noun) /\ IsDirect(noun[2])
    THEN [noun |-> <<"direct", noun[2]>>, stack |-> stack]
    ELSE [noun |-> <<"ptr", Len(stack) + 1>>, stack |-> Append(stack, noun)]

\* The noun a handle denotes on a stack.  A pointer past the stack's
\* allocations denotes nothing the program wrote.
Deref(stack, h) ==
    IF h[1] = "direct" THEN <<"atom", h[2]>>
    ELSE IF h[2] \in 1..Len(stack) THEN stack[h[2]]
    ELSE <<"atom", <<>>>>

\* noun.atom(): Some for an atom; atom.as_u64(): Ok below 2^64.
as_u64(le) == IF Len(le) <= 8 THEN [ok |-> TRUE, val |-> le] ELSE [ok |-> FALSE]

\* JammedNoun::cue_self(stack)
cue_self(jammed, stack) ==
    LET Placed(a) == [ok |-> TRUE, noun |-> a.noun, stack |-> a.stack]
        Go(r) == IF ~r.ok THEN [ok |-> FALSE] ELSE Placed(Alloc(stack, r.noun))
    IN  Go(cue(jammed))

\* noun.jam_self(stack), as bytes
jam_self(stack, h) == jam(Deref(stack, h))

\* ------------------------------------------------------------------------
\* IndexerError and its conversion to a gRPC Status
\* ------------------------------------------------------------------------

InvalidData(msg, arg) == [kind |-> "InvalidData", msg |-> msg, arg |-> arg]

Memory(msg) == [kind |-> "Memory", msg |-> msg, arg |-> <<>>]

HexError(e) == [kind |-> "Hex", msg |-> e, arg |-> <<>>]

RocksDBError(e) == [kind |-> "RocksDB", msg |-> e, arg |-> <<>>]

\* impl From<IndexerError> for Status
StatusFrom(err) ==
    CASE err.kind = "RocksDB"     -> [code |-> "Internal", text |-> "RocksDB error", err |-> err]
      [] err.kind = "Hex"         -> [code |-> "InvalidArgument", text |-> "Hex decode error", err |-> err]
      [] err.kind = "InvalidData" -> [code |-> "InvalidArgument", text |-> "Invalid data", err |-> err]
      [] err.kind = "Memory"      -> [code |-> "ResourceExhausted", text |-> "Memory error", err |-> err]

\* ------------------------------------------------------------------------
\* Page
\* ------------------------------------------------------------------------

\* The ceiling on one field's length prefix.
MAX_FIELD_LEN == 200000

\* A loop that stops one entry early.
FieldCountShort == 10 - 1

\* The number of length-prefixed entries from_bytes reads.
FIELD_COUNT == 10

\* The number of nouns a Page is built from.
EXPECTED_FIELDS == 10

\* A u32 read little-endian is kept as its four bytes; U32 is its value when it
\* is below 2^31, and a value of 2^31 or more exceeds every length compared
\* with it here.
U32Fits(lenb) == lenb[4] < 128

U32(lenb) == lenb[1] + 256 * lenb[2] + 65536 * lenb[3] + 16777216 * lenb[4]

\* A range index bytes[a..b] panics when the range leaves the slice.
Index(bytes, a, b) ==
    IF a <= b /\ b <= Len(bytes) THEN [ok |-> TRUE, val |-> Slice(bytes, a, b)]
    ELSE [ok |-> FALSE]

\* bytes[off..off + len]
Payload(bytes, off, lenb) ==
    IF U32Fits(lenb) THEN Index(bytes, off, off + U32(lenb)) ELSE [ok |-> FALSE]

\* The unwinding of a panic: no Result is returned.
Panicked(stack) ==
    [ok |-> FALSE, err |-> [kind |-> "Panic", msg |-> "index out of range", arg |-> <<>>],
     stack |-> stack]

\* offset + 4 > bytes.len()
HeaderIncomplete(bytes, offset) == offset + 4 > Len(bytes)

\* u32::from_le_bytes(bytes[offset..offset + 4].try_into().unwrap())
ReadLen(bytes, offset) == Index(bytes, offset, offset + 4)

\* offset + len > bytes.len(), offset already past the prefix
PayloadMissing(bytes, offset, lenb) ==
    ~U32Fits(lenb) \/ offset + U32(lenb) > Len(bytes)

\* The ceiling compared with >= instead of >.
FieldTooLargeOffByOne(lenb) == ~U32Fits(lenb) \/ U32(lenb) >= MAX_FIELD_LEN

\* len > 200_000
FieldTooLarge(lenb) == ~U32Fits(lenb) \/ U32(lenb) > MAX_FIELD_LEN

\* The length check without its comparison against bytes.len().
InvalidLengthCeilingOnly(bytes, offset, lenb) == FieldTooLarge(lenb)

\* offset + len > bytes.len() || len > 200_000
InvalidLength(bytes, offset, lenb) ==
    PayloadMissing(bytes, offset, lenb) \/ FieldTooLarge(lenb)

\* The Page built from the ten nouns: nouns[1] (pow) is left out.
PageOf(nouns) ==
    [digest           |-> nouns[1],
     parent           |-> nouns[3],
     tx_ids           |-> nouns[4],
     coinbase         |-> nouns[5],
     timestamp        |-> nouns[6],
     epoch_counter    |-> nouns[7],
     target           |-> nouns[8],
     accumulated_work |-> nouns[9],
     height           |-> nouns[10]]

\* A decoder that takes bytes left after the tenth entry for an error.
FinishLengthExact(bytes, offset, nouns, stack) ==
    IF Len(nouns) # EXPECTED_FIELDS \/ offset # Len(bytes)
    THEN [ok |-> FALSE, err |-> InvalidData("Wrong number of fields", <<>>), stack |-> stack]
    ELSE [ok |-> TRUE, val |-> <<PageOf(nouns)>>, stack |-> stack]

\* What follows the loop: the count check and the Page.
Finish(bytes, offset, nouns, stack) ==
    IF Len(nouns) # EXPECTED_FIELDS
    THEN [ok |-> FALSE, err |-> InvalidData("Wrong number of fields", <<>>), stack |-> stack]
    ELSE [ok |-> TRUE, val |-> <<PageOf(nouns)>>, stack |-> stack]

RECURSIVE ReadFields(_, _, _, _, _)
\* The loop of from_bytes with i entries still to read.
ReadFields(bytes, i, offset, nouns, stack) ==
    LET Cued(body, c) ==
            IF ~c.ok THEN [ok |-> FALSE, err |-> Memory("Cue failed"), stack |-> stack]
            ELSE ReadFields(bytes, i - 1, offset + 4 + Len(body.val),
                            Append(nouns, c.noun), c.stack)
        Body(body) ==
            IF ~body.ok THEN Panicked(stack) ELSE Cued(body, cue_self(body.val, stack))
        Header(hdr) ==
            IF ~hdr.ok THEN Panicked(stack)
            ELSE IF InvalidLength(bytes, offset + 4, hdr.val)
            THEN [ok |-> FALSE, err |-> InvalidData("Invalid length", hdr.val),
                  stack |-> stack]
            ELSE Body(Payload(bytes, offset + 4, hdr.val))
    IN  IF i = 0 THEN Finish(bytes, offset, nouns, stack)
        ELSE IF HeaderIncomplete(bytes, offset)
        THEN [ok |-> FALSE, err |-> InvalidData("Incomplete data", <<>>), stack |-> stack]
        ELSE Header(ReadLen(bytes, offset))

\* Page::from_bytes: Ok(Some(page)) or Err, and the stack after it.
from_bytes(bytes, stack) == ReadFields(bytes, FIELD_COUNT, 0, <<>>, stack)

\* Page::get_field
get_field(page, field) ==
    CASE field = "digest"           -> [ok |-> TRUE, val |-> page.digest]
      [] field = "parent"           -> [ok |-> TRUE, val |-> page.parent]
      [] field = "tx-ids"           -> [ok |-> TRUE, val |-> page.tx_ids]
      [] field = "coinbase"         -> [ok |-> TRUE, val |-> page.coinbase]
      [] field = "timestamp"        -> [ok |-> TRUE, val |-> page.timestamp]
      [] field = "epoch-counter"    -> [ok |-> TRUE, val |-> page.epoch_counter]
      [] field = "target"           -> [ok |-> TRUE, val |-> page.target]
      [] field = "accumulated-work" -> [ok |-> TRUE, val |-> page.accumulated_work]
      [] field = "height"           -> [ok |-> TRUE, val |-> page.height]
      [] OTHER -> [ok |-> FALSE, err |-> InvalidData("Unknown field", <<>>)]

\* "invalid (not atom): "
NotAtomText == <<105, 110, 118, 97, 108, 105, 100, 32, 40, 110, 111, 116, 32, 97, 116, 111, 109, 41, 58, 32>>

\* "error: InvalidData(\"Unknown field: "
UnknownFieldText == <<101, 114, 114, 111, 114, 58, 32, 73, 110, 118, 97, 108, 105, 100, 68, 97, 116, 97, 40, 34, 85, 110, 107, 110, 111, 119, 110, 32, 102, 105, 101, 108, 100, 58, 32>>

\* "\")"
CloseText == <<34, 41>>

\* The UTF-8 bytes of the field names format_as_ud is called with.
FieldNameText(field) ==
    CASE field = "timestamp"     -> <<116, 105, 109, 101, 115, 116, 97, 109, 112>>
      [] field = "epoch_counter" -> <<101, 112, 111, 99, 104, 95, 99, 111, 117, 110, 116, 101, 114>>
      [] field = "epoch-counter" -> <<101, 112, 111, 99, 104, 45, 99, 111, 117, 110, 116, 101, 114>>
      [] field = "height"        -> <<104, 101, 105, 103, 104, 116>>

RECURSIVE DebugNoun(_)
\* The {:?} form of a noun, which nockvm owns: an atom in decimal, a cell in
\* brackets.  Only its being a function of the noun is relied on.
DebugNoun(noun) ==
    IF IsAtom(noun) THEN MagDigits(noun[2])
    ELSE <<91>> \o DebugNoun(noun[2]) \o <<32>> \o DebugNoun(noun[3]) \o <<93>>

\* Page::format_as_ud: never an Err.
format_as_ud(page, field, stack) ==
    LET U64(v) == IF v.ok THEN MagDigits(v.val) ELSE <<>>
        Ud(noun) ==
            IF IsAtom(noun)
            THEN IF as_u64(noun[2]).ok THEN U64(as_u64(noun[2])) ELSE MagDigits(noun[2])
            ELSE NotAtomText \o DebugNoun(noun)
        Go(f) ==
            IF f.ok THEN Ud(Deref(stack, f.val))
            ELSE UnknownFieldText \o FieldNameText(field) \o CloseText
    IN  Go(get_field(page, field))

\* Page::noun_to_bytes
noun_to_bytes(noun, stack) == jam_self(stack, noun)

\* Page::to_block: the Block of the response; no step of it fails.
to_block(page, stack) ==
    [digest           |-> hex_encode(noun_to_bytes(page.digest, stack)),
     parent           |-> hex_encode(noun_to_bytes(page.parent, stack)),
     tx_ids           |-> hex_encode(noun_to_bytes(page.tx_ids, stack)),
     coinbase         |-> hex_encode(noun_to_bytes(page.coinbase, stack)),
     timestamp        |-> format_as_ud(page, "timestamp", stack),
     epoch_counter    |-> format_as_ud(page, "epoch_counter", stack),
     target           |-> hex_encode(noun_to_bytes(page.target, stack)),
     accumulated_work |-> hex_encode(noun_to_bytes(page.accumulated_work, stack)),
     height           |-> format_as_ud(page, "height", stack)]


\* ------------------------------------------------------------------------
\* The store: two column families of a RocksDB opened read-only (init_db)
\* ------------------------------------------------------------------------

\* db.get_cf(cf, key): io is the outcome of the read itself.
get_cf(store, cf, key, io) ==
    IF io # "ok" THEN [ok |-> FALSE, err |-> RocksDBError(io)]
    ELSE IF key \in DOMAIN store[cf] THEN [ok |-> TRUE, val |-> <<store[cf][key]>>]
    ELSE [ok |-> TRUE, val |-> <<>>]

\* "0x_"
HexMarker == <<48, 120, 95>>

\* height.to_string().as_bytes()
HeightKey(height) == u64_to_string(height)

\* A key that falls back to the raw bytes when the hex does not decode.
DigestKeyFallsBackToRaw(digest) ==
    IF StartsWith(digest, HexMarker) /\ hex_decode(DropBytes(digest, 3)).ok
    THEN hex_decode(DropBytes(digest, 3))
    ELSE [ok |-> TRUE, val |-> digest]

\* The key bytes query_by_digest makes of the digest string.
DigestKey(digest) ==
    LET Go(d) == IF d.ok THEN d ELSE [ok |-> FALSE, err |-> HexError(d.err)]
    IN  IF StartsWith(digest, HexMarker) THEN Go(hex_decode(DropBytes(digest, 3)))
        ELSE [ok |-> TRUE, val |-> digest]

\* The tail shared by both queries: the pages entry of a key, decoded.
PageAt(store, key, stack, io) ==
    LET Go(p) ==
            IF ~p.ok THEN [ok |-> FALSE, err |-> p.err, stack |-> stack]
            ELSE IF p.val # <<>> THEN from_bytes(p.val[1], stack)
            ELSE [ok |-> TRUE, val |-> <<>>, stack |-> stack]
    IN  Go(get_cf(store, "pages", key, io))

\* Page::query_by_height; io1 and io2 are the outcomes of its two reads.
query_by_height(store, height, stack, io1, io2) ==
    LET Go(h) ==
            IF ~h.ok THEN [ok |-> FALSE, err |-> h.err, stack |-> stack]
            ELSE IF h.val # <<>> THEN PageAt(store, h.val[1], stack, io2)
            ELSE [ok |-> TRUE, val |-> <<>>, stack |-> stack]
    IN  Go(get_cf(store, "height_to_digest", HeightKey(height), io1))

\* Page::query_by_digest; io is the outcome of its read.
query_by_digest(store, digest, stack, io) ==
    LET Go(k) ==
            IF ~k.ok THEN [ok |-> FALSE, err |-> k.err, stack |-> stack]
            ELSE PageAt(store, k.val, stack, io)
    IN  Go(DigestKey(digest))

\* The match of both handlers on the query's result.
ResponseOf(q) ==
    IF ~q.ok
    THEN IF q.err.kind = "Panic" THEN [ok |-> FALSE, block |-> <<>>, status |-> <<>>]
         ELSE [ok |-> FALSE, block |-> <<>>, status |-> <<StatusFrom(q.err)>>]
    ELSE IF q.val # <<>>
         THEN [ok |-> TRUE, block |-> <<to_block(q.val[1], q.stack)>>, status |-> <<>>]
         ELSE [ok |-> TRUE, block |-> <<>>, status |-> <<>>]

\* get_block_by_height, run from its first line to its last.
get_block_by_height(store, height, io1, io2) ==
    ResponseOf(query_by_height(store, height, NockStack_new, io1, io2))

\* get_block_by_digest, run from its first line to its last.
get_block_by_digest(store, digest, io) ==
    ResponseOf(query_by_digest(store, digest, NockStack_new, io))

\* ------------------------------------------------------------------------
\* Inputs: records, stores and requests
\* ------------------------------------------------------------------------

\* A u32 as its four little-endian bytes.
U32Le(n) == <<n % 256, (n \div 256) % 256, (n \div 65536) % 256, n \div 16777216>>

\* One length-prefixed entry.
Entry(payload) == U32Le(Len(payload)) \o payload

RECURSIVE Entries(_)
\* The entries of a sequence of payloads, in order.
Entries(payloads) ==
    IF payloads = <<>> THEN <<>> ELSE Entry(Head(payloads)) \o Entries(Tail(payloads))

\* The record holding the jam of each noun, in order.
Encode(nouns) == Entries([i \in 1..Len(nouns) |-> jam(nouns[i])])

Big70 == Atom(<<0, 0, 0, 0, 0, 0, 0, 0, 64>>)

MaxU64 == Atom(<<255, 255, 255, 255, 255, 255, 255, 255>>)

Small(n) == Atom(<<n>>)

\* digest, pow, parent, tx_ids, coinbase, timestamp, epoch_counter, target,
\* accumulated_work, height
NounsA ==
    <<Cell(Small(1), Small(2)), Small(0), Small(9), Small(0), Small(3),
      Big70, Small(7), MaxU64, Small(5), Small(100)>>

NounsB ==
    <<Small(4), Cell(Small(0), Small(0)), Cell(Small(1), Small(2)), Small(6), Small(3),
      Cell(Small(1), Small(1)), MaxU64, Small(8), Big70, Small(101)>>

RecA == Encode(NounsA)

RecB == Encode(NounsB)


\* RecB followed by bytes that belong to no entry.
RecBTrail == RecB \o <<7, 7>>

\* RecA cut one byte before its end, inside the last payload.
RecACutPayload == SubSeq(RecA, 1, Len(RecA) - 1)

\* RecA cut inside the length prefix of its second entry.
RecACutPrefix == SubSeq(RecA, 1, 8)

\* The first nine entries of RecA and nothing else.
RecANine == Encode(SubSeq(NounsA, 1, 9))

\* RecA with the payload of slot 1 (pow) replaced by a byte cue rejects.
RecABadPow == Entry(jam(NounsA[1])) \o Entry(<<0>>) \o Encode(SubSeq(NounsA, 3, 10))

\* RecA with the first length prefix replaced by MAX_FIELD_LEN + 1.
RecAOversized == U32Le(MAX_FIELD_LEN + 1) \o DropBytes(RecA, 4)

\* Digests: 0xAB12, the bytes of "ab", and the bytes of "0x_ab12".
KeyHex == <<171, 18>>

KeyRaw == <<97, 98>>

KeyAmb == <<48, 120, 95, 97, 98, 49, 50>>

\* The function with the given <<key, value>> pairs.
MapOf(pairs) ==
    [k \in {pairs[i][1] : i \in 1..Len(pairs)} |->
        pairs[CHOOSE i \in 1..Len(pairs) : pairs[i][1] = k][2]]

PageMaps ==
    { MapOf(<<<<KeyHex, RecA>>, <<KeyRaw, RecBTrail>>>>),
      MapOf(<<<<KeyHex, RecA>>, <<KeyAmb, RecB>>>>),
      MapOf(<<<<KeyHex, RecACutPayload>>, <<KeyRaw, RecABadPow>>>>),
      MapOf(<<<<KeyHex, RecAOversized>>, <<KeyRaw, RecANine>>, <<KeyAmb, RecACutPrefix>>>>) }

HeightMaps ==
    { MapOf(<<<<HeightKey(100), KeyHex>>, <<HeightKey(101), KeyRaw>>>>),
      MapOf(<<<<HeightKey(100), KeyAmb>>>>),
      MapOf(<<<<HeightKey(100), KeyRaw>>, <<HeightKey(101), KeyAmb>>>>) }

\* The contents a store may have been written with.
Stores == { [pages |-> p, height_to_digest |-> h] : p \in PageMaps, h \in HeightMaps }

\* The heights asked for.
Heights == {100, 101}

\* The digest strings asked for: "0x_ab12", "0x_AB12", "ab", "0x_6162",
\* "0x_30785f61623132", "0x_abc", "0x_zz", "zz", "0x_".
DigestStrings ==
    { <<48, 120, 95, 97, 98, 49, 50>>,
      <<48, 120, 95, 65, 66, 49, 50>>,
      <<97, 98>>,
      <<48, 120, 95, 54, 49, 54, 50>>,
      <<48, 120, 95, 51, 48, 55, 56, 53, 102, 54, 49, 54, 50, 51, 49, 51, 50>>,
      <<48, 120, 95, 97, 98, 99>>,
      <<48, 120, 95, 122, 122>>,
      <<122, 122>>,
      <<48, 120, 95>> }

\* What one read of the store may come to: the value, or an I/O error.
IoOutcomes == {"ok", "IO error"}

\* ------------------------------------------------------------------------
\* The service: NumCalls handler calls in flight over one store
\* ------------------------------------------------------------------------

NumCalls == 2

Calls == 1..NumCalls

VARIABLES
    db,       \* NockchainServiceImpl.db: the store, opened read-only
    req,      \* per call: where the handler stands, its locals, and in ios the
              \* outcome of each store read it has made
    arenas,   \* per NockStack: <<>> when not allocated, else <<its nouns>>
    input,    \* the decoder under test: how its buffer was made
    output    \* the decoder under test: <<>> or <<the result of from_bytes>>

vars == <<db, req, arenas, input, output>>

Idle ==
    [pc |-> "idle", kind |-> "none", height |-> 0, digest |-> <<>>, stack |-> 0,
     key |-> <<>>, page_bytes |-> <<>>, page |-> <<>>, ios |-> <<>>, resp |-> <<>>]

\* One arena kept and handed to every call.
PooledStack(a) == CHOOSE id \in DOMAIN a : \A j \in DOMAIN a : id <= j

\* The arena NockStack::new hands out: one no live call holds.
FreshStack(a) ==
    CHOOSE id \in DOMAIN a : a[id] = <<>> /\ \A j \in DOMAIN a : a[j] = <<>> => id <= j

\* The nouns of a live arena.
StackOf(a, id) == IF id \in DOMAIN a /\ a[id] # <<>> THEN a[id][1] ELSE <<>>

\* get_block_by_height, to NockStack::new
ReceiveByHeight(r) ==
    /\ req[r].pc = "idle"
    /\ \E h \in Heights :
          req' = [req EXCEPT ![r] = [Idle EXCEPT !.pc = "resolve", !.kind = "height",
                                                 !.height = h, !.stack = FreshStack(arenas)]]
    /\ arenas' = [arenas EXCEPT ![FreshStack(arenas)] = <<NockStack_new>>]
    /\ UNCHANGED <<db, input, output>>

\* get_block_by_digest, to NockStack::new
ReceiveByDigest(r) ==
    /\ req[r].pc = "idle"
    /\ \E d \in DigestStrings :
          req' = [req EXCEPT ![r] = [Idle EXCEPT !.pc = "resolve", !.kind = "digest",
                                                 !.digest = d, !.stack = FreshStack(arenas)]]
    /\ arenas' = [arenas EXCEPT ![FreshStack(arenas)] = <<NockStack_new>>]
    /\ UNCHANGED <<db, input, output>>

\* The handler's match on a query that ended here.
Ended(me, q) == [me EXCEPT !.pc = "done", !.resp = <<ResponseOf(q)>>]

\* query_by_height: the read of height_to_digest
ResolveHeight(r) ==
    LET Go(me, st, h) ==
            IF ~h.ok \/ h.val = <<>>
            THEN Ended(me, IF ~h.ok THEN [ok |-> FALSE, err |-> h.err, stack |-> st]
                           ELSE [ok |-> TRUE, val |-> <<>>, stack |-> st])
            ELSE [me EXCEPT !.pc = "fetch", !.key = h.val]
    IN  /\ req[r].pc = "resolve" /\ req[r].kind = "height"
        /\ \E io \in IoOutcomes :
              req' = [req EXCEPT ![r] =
                        Go([req[r] EXCEPT !.ios = Append(@, io)], StackOf(arenas, req[r].stack),
                           get_cf(db, "height_to_digest", HeightKey(req[r].height), io))]
        /\ UNCHANGED <<db, arenas, input, output>>

\* query_by_digest: the key bytes of the digest string
ResolveDigest(r) ==
    LET Go(me, st, k) ==
            IF ~k.ok THEN Ended(me, [ok |-> FALSE, err |-> k.err, stack |-> st])
            ELSE [me EXCEPT !.pc = "fetch", !.key = <<k.val>>]
    IN  /\ req[r].pc = "resolve" /\ req[r].kind = "digest"
        /\ req' = [req EXCEPT ![r] =
                     Go(req[r], StackOf(arenas, req[r].stack), DigestKey(req[r].digest))]
        /\ UNCHANGED <<db, arenas, input, output>>

\* A read of pages that takes a missing entry for corruption.
FetchMissIsError(r) ==
    LET Go(me, st, p) ==
            IF ~p.ok \/ p.val = <<>>
            THEN Ended(me, [ok |-> FALSE, stack |-> st,
                            err |-> IF ~p.ok THEN p.err
                                    ELSE InvalidData("Missing page", <<>>)])
            ELSE [me EXCEPT !.pc = "decode", !.page_bytes = p.val]
    IN  /\ req[r].pc = "fetch"
        /\ \E io \in IoOutcomes :
              req' = [req EXCEPT ![r] =
                        Go([req[r] EXCEPT !.ios = Append(@, io)], StackOf(arenas, req[r].stack),
                           get_cf(db, "pages", req[r].key[1], io))]
        /\ UNCHANGED <<db, arenas, input, output>>

\* Both queries: the read of pages
Fetch(r) ==
    LET Go(me, st, p) ==
            IF ~p.ok \/ p.val = <<>>
            THEN Ended(me, IF ~p.ok THEN [ok |-> FALSE, err |-> p.err, stack |-> st]
                           ELSE [ok |-> TRUE, val |-> <<>>, stack |-> st])
            ELSE [me EXCEPT !.pc = "decode", !.page_bytes = p.val]
    IN  /\ req[r].pc = "fetch"
        /\ \E io \in IoOutcomes :
              req' = [req EXCEPT ![r] =
                        Go([req[r] EXCEPT !.ios = Append(@, io)], StackOf(arenas, req[r].stack),
                           get_cf(db, "pages", req[r].key[1], io))]
        /\ UNCHANGED <<db, arenas, input, output>>

\* A decode whose failure is answered as "not found".
DecodeFailureIsNotFound(r) ==
    LET Go(d) ==
            /\ req' = [req EXCEPT ![r] =
                         IF ~d.ok THEN Ended(req[r], [ok |-> TRUE, val |-> <<>>, stack |-> d.stack])
                         ELSE [req[r] EXCEPT !.pc = "render", !.page = d.val]]
            /\ arenas' = [arenas EXCEPT ![req[r].stack] = <<d.stack>>]
    IN  /\ req[r].pc = "decode"
        /\ Go(from_bytes(req[r].page_bytes[1], StackOf(arenas, req[r].stack)))
        /\ UNCHANGED <<db, input, output>>

\* Both queries: Self::from_bytes(&page_bytes, stack)
Decode(r) ==
    LET Go(d) ==
            /\ req' = [req EXCEPT ![r] =
                         IF ~d.ok THEN Ended(req[r], d)
                         ELSE [req[r] EXCEPT !.pc = "render", !.page = d.val]]
            /\ arenas' = [arenas EXCEPT ![req[r].stack] = <<d.stack>>]
    IN  /\ req[r].pc = "decode"
        /\ Go(from_bytes(req[r].page_bytes[1], StackOf(arenas, req[r].stack)))
        /\ UNCHANGED <<db, input, output>>

\* Both handlers: the Ok(Some(page)) arm, page.to_block(&mut stack)
Render(r) ==
    /\ req[r].pc = "render"
    /\ req' = [req EXCEPT ![r] =
                 Ended(req[r], [ok |-> TRUE, val |-> req[r].page,
                                stack |-> StackOf(arenas, req[r].stack)])]
    /\ UNCHANGED <<db, arenas, input, output>>

\* Both handlers: the return; the call's locals, its stack among them, drop.
Return(r) ==
    /\ req[r].pc = "done"
    /\ req' = [req EXCEPT ![r] = Idle]
    /\ arenas' = [arenas EXCEPT ![req[r].stack] = <<>>]
    /\ UNCHANGED <<db, input, output>>

\* main: the store is opened once (init_db), then the server takes calls.
Init ==
    /\ db \in Stores
    /\ req = [r \in Calls |-> Idle]
    /\ arenas = [id \in Calls |-> <<>>]
    /\ input = <<>>
    /\ output = <<>>

Next ==
    \E r \in Calls :
        \/ ReceiveByHeight(r)
        \/ ReceiveByDigest(r)
        \/ ResolveHeight(r)
        \/ ResolveDigest(r)
        \/ Fetch(r)
        \/ Decode(r)
        \/ Render(r)
        \/ Return(r)

Spec == Init /\ [][Next]_vars

\* ------------------------------------------------------------------------
\* The decoder on its own: one buffer, decoded and then rendered
\* ------------------------------------------------------------------------

\* The two well-formed records and the nouns they were made of.
BaseNouns(b) == IF b = "A" THEN NounsA ELSE NounsB

BaseRec(b) == IF b = "A" THEN RecA ELSE RecB

\* Bytes that may follow the tenth entry: two stray bytes, a zero prefix, an
\* eleventh well-formed entry, a prefix of 2^32 - 1, one byte.
Trails ==
    << <<7, 7>>, <<0, 0, 0, 0>>, Entry(jam(Small(5))), <<255, 255, 255, 255, 1>>, <<0>> >>

\* Length prefixes above the ceiling: 200,001, 2^24, 2^31 and 2^32 - 1.
OverPrefixes ==
    << <<65, 13, 3, 0>>, <<0, 0, 0, 1>>, <<0, 0, 0, 128>>, <<255, 255, 255, 255>> >>

\* Payloads cue rejects: a reference to a position never written, and an atom
\* whose length header never ends.
BadPayloads == << <<255>>, <<0>> >>

\* The entries of a base record before position pos (counted from 1).
Before(b, pos) == Encode(SubSeq(BaseNouns(b), 1, pos - 1))

\* The entries of a base record from position pos on.
From(b, pos) == Encode(SubSeq(BaseNouns(b), pos, Len(BaseNouns(b))))

\* A payload of exactly MAX_FIELD_LEN bytes that cue accepts: the jam of 0
\* followed by zero bytes.
MaxPayload == jam(Small(0)) \o Fill(0, MAX_FIELD_LEN - 1)

\* The buffer an input stands for.
Buffer(in) ==
    CASE in.op = "whole"    -> BaseRec(in.base)
      [] in.op = "cut"      -> SubSeq(BaseRec(in.base), 1, in.k)
      [] in.op = "trail"    -> BaseRec(in.base) \o Trails[in.k]
      [] in.op = "first"    -> Before(in.base, in.k + 1)
      [] in.op = "over"     -> Before(in.base, in.pos) \o OverPrefixes[in.k]
                                   \o DropBytes(From(in.base, in.pos), 4)
      [] in.op = "overfull" -> Before(in.base, in.pos) \o OverPrefixes[1]
                                   \o Fill(255, MAX_FIELD_LEN + 1) \o From(in.base, in.pos + 1)
      [] in.op = "max"      -> Before(in.base, in.pos) \o Entry(MaxPayload)
                                   \o From(in.base, in.pos + 1)
      [] in.op = "bad"      -> Before(in.base, in.pos) \o Entry(BadPayloads[in.k])
                                   \o From(in.base, in.pos + 1)

In(op, b, pos, k) == [op |-> op, base |-> b, pos |-> pos, k |-> k]

Bases == {"A", "B"}

\* The entry positions of a record, counted from 1.
Positions == 1..Len(NounsA)

\* The buffers the decoder is run on.
CodecInputs ==
    { In("whole", b, 0, 0) : b \in Bases }
    \cup UNION { { In("cut", b, 0, k) : k \in 0..(Len(BaseRec(b)) - 1) } : b \in Bases }
    \cup { In("trail", b, 0, k) : b \in Bases, k \in 1..Len(Trails) }
    \cup { In("first", b, 0, n) : b \in Bases, n \in 0..(Len(NounsA) - 1) }
    \cup { In("over", "A", pos, k) : pos \in Positions, k \in 1..Len(OverPrefixes) }
    \cup { In("overfull", "A", pos, 1) : pos \in Positions }
    \cup { In("max", "A", pos, 0) : pos \in Positions }
    \cup { In("bad", b, pos, k) : b \in Bases, pos \in Positions, k \in 1..Len(BadPayloads) }

CodecInit ==
    /\ input \in CodecInputs
    /\ output = <<>>
    /\ db = [pages |-> <<>>, height_to_digest |-> <<>>]
    /\ req = <<>>
    /\ arenas = <<>>

\* Page::from_bytes on the buffer, with a new stack
DecodeBuffer ==
    /\ output = <<>>
    /\ output' = <<from_bytes(Buffer(input), NockStack_new)>>
    /\ UNCHANGED <<input, db, req, arenas>>

\* Page::to_block on the page decoded
RenderPage ==
    /\ Len(output) = 1
    /\ output[1].ok
    /\ output' = Append(output, to_block(output[1].val[1], output[1].stack))
    /\ UNCHANGED <<input, db, req, arenas>>

CodecNext == DecodeBuffer \/ RenderPage

SpecCodec == CodecInit /\ [][CodecNext]_vars

\* ------------------------------------------------------------------------
\* The outcomes of a decode
\* ------------------------------------------------------------------------

\* Err(InvalidData("Incomplete data")): the Truncated outcome.
Truncated(r) == ~r.ok /\ r.err.kind = "InvalidData" /\ r.err.msg = "Incomplete data"

\* Err(InvalidData("Invalid length: L")): the FieldTooLarge outcome.
InvalidLengthOf(r, lenb) ==
    ~r.ok /\ r.err.kind = "InvalidData" /\ r.err.msg = "Invalid length" /\ r.err.arg = lenb

\* Err(InvalidData("Wrong number of fields")): the WrongFieldCount outcome.
WrongFieldCount(r) ==
    ~r.ok /\ r.err.kind = "InvalidData" /\ r.err.msg = "Wrong number of fields"

\* Err(Memory("Cue failed: ..")): the DeserializeFailed outcome.
DeserializeFailed(r) == ~r.ok /\ r.err.kind = "Memory" /\ r.err.msg = "Cue failed"

\* No Result at all: the decoder indexed past the end of the buffer.
PanicOutcome(r) == ~r.ok /\ r.err.kind = "Panic"

\* The nine handles of a page in slot order, and the nouns they stand for.
PageSlots(page) ==
    <<page.digest, page.parent, page.tx_ids, page.coinbase, page.timestamp,
      page.epoch_counter, page.target, page.accumulated_work, page.height>>

SlotNouns(r) == [i \in 1..9 |-> Deref(r.stack, PageSlots(r.val[1])[i])]

\* The nouns of ten slots that a page exposes: all but slot 1.
Exposed(nouns) == <<nouns[1]>> \o SubSeq(nouns, 3, 10)

\* The entry of a base record that a cut at k falls in, and whether the cut
\* leaves fewer than four bytes of it.
CutEntry(b, k) ==
    CHOOSE i \in Positions : Len(Before(b, i)) <= k /\ k < Len(Before(b, i + 1))

CutInPrefix(b, k) == k < Len(Before(b, CutEntry(b, k))) + 4

\* The length prefix of entry i of a base record.
PrefixOf(b, i) == U32Le(Len(jam(BaseNouns(b)[i])))

\* ------------------------------------------------------------------------
\* C4  Truncation
\* ------------------------------------------------------------------------

\* C4 as claimed: a valid record cut at any offset before its end decodes to
\* the Truncated error.
C4Claim ==
    (input.op = "cut" /\ output # <<>>) => Truncated(output[1])

\* C4 as amended: a valid record cut at any offset before its end never
\* decodes to a record and never makes the decoder index past the buffer; the
\* error is Truncated ("Incomplete data") when the cut leaves fewer than four
\* bytes of an entry's length prefix, and the invalid-length error of that
\* entry's prefix (the error an oversized prefix gets) when the cut falls
\* after the prefix, inside the payload.
C4Truncation ==
    (input.op = "cut" /\ output # <<>>) =>
        /\ ~output[1].ok
        /\ ~PanicOutcome(output[1])
        /\ Len(output) = 1
        /\ IF CutInPrefix(input.base, input.k)
           THEN Truncated(output[1])
           ELSE InvalidLengthOf(output[1], PrefixOf(input.base, CutEntry(input.base, input.k)))

\* C4 witness: a record cut inside the payload of its last entry, decoded.
C4Witness ==
    /\ input.op = "cut" /\ output # <<>>
    /\ CutEntry(input.base, input.k) = 10
    /\ ~CutInPrefix(input.base, input.k)
    /\ InvalidLengthOf(output[1], PrefixOf(input.base, 10))

\* ------------------------------------------------------------------------
\* C5  Field count
\* ------------------------------------------------------------------------

\* C5 as claimed: n < 10 well-formed entries and nothing else decode to the
\* WrongFieldCount error.
C5Claim ==
    (input.op = "first" /\ output # <<>>) => WrongFieldCount(output[1])

\* C5 as amended: n < 10 well-formed entries and nothing else decode to the
\* Truncated error ("Incomplete data"), for every n in 0..9, and no buffer at
\* all decodes to the WrongFieldCount error.
C5FieldCount ==
    output # <<>> =>
        /\ ~WrongFieldCount(output[1])
        /\ input.op = "first" => Truncated(output[1])

\* C5 witness: nine well-formed entries and nothing else, decoded.
C5Witness ==
    /\ input.op = "first" /\ input.k = 9 /\ output # <<>>
    /\ Truncated(output[1])

\* ------------------------------------------------------------------------
\* C6  Oversized field
\* ------------------------------------------------------------------------

\* C6: at each of the ten positions a length prefix above 200,000 decodes to
\* the invalid-length error of that prefix, whether the bytes it announces are
\* missing or present (and, present, whether or not cue would take them); a
\* prefix of exactly 200,000 with its bytes present is accepted and the record
\* decodes, the slot holding the payload's noun.
C6Oversized ==
    output # <<>> =>
        /\ input.op = "over" => InvalidLengthOf(output[1], OverPrefixes[input.k])
        /\ input.op = "overfull" => InvalidLengthOf(output[1], OverPrefixes[1])
        /\ input.op = "max" =>
              /\ output[1].ok
              /\ \A i \in 1..9 :
                    SlotNouns(output[1])[i] =
                        Exposed([BaseNouns(input.base) EXCEPT ![input.pos] = Small(0)])[i]

\* C6 witness: a prefix of 200,001 in the last position with 200,001 bytes
\* after it, decoded.
C6Witness ==
    /\ input.op = "overfull" /\ input.pos = 10 /\ output # <<>>
    /\ Len(Buffer(input)) > Len(Before(input.base, 10)) + MAX_FIELD_LEN
    /\ ~output[1].ok

\* ------------------------------------------------------------------------
\* C7  Prefix-exact decoding
\* ------------------------------------------------------------------------

\* C7: ten well-formed entries followed by any bytes decode as the ten entries
\* alone do, to the nouns the entries hold, and render to the same block; a
\* slot whose payload cue rejects, slot 1 (pow) included, fails the decode.
C7PrefixExact ==
    output # <<>> =>
        /\ input.op = "trail" =>
              /\ output[1] = from_bytes(BaseRec(input.base), NockStack_new)
              /\ output[1].ok
              /\ SlotNouns(output[1]) = Exposed(BaseNouns(input.base))
              /\ Len(output) = 2 =>
                    output[2] = to_block(from_bytes(BaseRec(input.base), NockStack_new).val[1],
                                         from_bytes(BaseRec(input.base), NockStack_new).stack)
        /\ input.op = "bad" => DeserializeFailed(output[1])

\* C7 witness: a record followed by an eleventh entry, decoded and rendered.
C7Witness ==
    /\ input.op = "trail" /\ input.k = 3 /\ Len(output) = 2
    /\ output[1].ok

\* ------------------------------------------------------------------------
\* Requests and responses
\* ------------------------------------------------------------------------

Done(r) == req[r].pc = "done"

Resp(r) == req[r].resp[1]

\* Ok(Response { block: None })
EmptyResult(x) == x.ok /\ x.block = <<>> /\ x.status = <<>>

\* Every store read of a call came back.
AllOk(ios) == \A i \in 1..Len(ios) : ios[i] = "ok"

\* The outcome of a call's i-th store read; "ok" for one it did not make.
Io(me, i) == IF Len(me.ios) >= i THEN me.ios[i] ELSE "ok"

\* "0x_" followed by the lower-case hex of d.
HexForm(d) == HexMarker \o hex_encode(d)

\* Bytes that are the UTF-8 of a string as they stand.
IsAscii(d) == \A i \in 1..Len(d) : d[i] < 128

\* The response of the same request served alone, with the same read outcomes.
RunAlone(me) ==
    IF me.kind = "height" THEN get_block_by_height(db, me.height, Io(me, 1), Io(me, 2))
    ELSE get_block_by_digest(db, me.digest, Io(me, 1))

\* A height request that found its height_to_digest entry.
Resolved(r) ==
    /\ Done(r) /\ req[r].kind = "height"
    /\ req[r].ios # <<>> /\ req[r].ios[1] = "ok"
    /\ HeightKey(req[r].height) \in DOMAIN db.height_to_digest

ResolvedDigest(r) == db.height_to_digest[HeightKey(req[r].height)]

\* ------------------------------------------------------------------------
\* C1  Height resolution
\* ------------------------------------------------------------------------

\* C1 as claimed: a height request whose height has an entry d answers as the
\* digest request for "0x_" + hex(d) does, and as the digest request for the
\* string whose bytes are d does.
C1Claim ==
    \A r \in Calls :
        Resolved(r) =>
            /\ Resp(r) = get_block_by_digest(db, HexForm(ResolvedDigest(r)), Io(req[r], 2))
            /\ IsAscii(ResolvedDigest(r)) =>
                  Resp(r) = get_block_by_digest(db, ResolvedDigest(r), Io(req[r], 2))

\* C1 as amended: a height request whose height has an entry d answers as the
\* digest request for "0x_" + hex(d) does, and as the digest request for the
\* string whose bytes are d does when d does not begin with the bytes of "0x_".
C1HeightResolution ==
    \A r \in Calls :
        Resolved(r) =>
            /\ Resp(r) = get_block_by_digest(db, HexForm(ResolvedDigest(r)), Io(req[r], 2))
            /\ (IsAscii(ResolvedDigest(r)) /\ ~StartsWith(ResolvedDigest(r), HexMarker)) =>
                  Resp(r) = get_block_by_digest(db, ResolvedDigest(r), Io(req[r], 2))

\* C1 witness: a height request resolved to the digest "ab" and answered with
\* a block.
C1Witness ==
    \E r \in Calls :
        /\ Resolved(r)
        /\ ResolvedDigest(r) = KeyRaw
        /\ Resp(r).ok /\ Resp(r).block # <<>>

\* ------------------------------------------------------------------------
\* C2  Not-found symmetry
\* ------------------------------------------------------------------------

\* C2: when its store reads come back, a height request with no
\* height_to_digest entry, a height request whose digest has no pages entry,
\* and a digest request whose key has no pages entry each answer with the
\* empty result, not an error.
C2NotFound ==
    \A r \in Calls :
        (Done(r) /\ AllOk(req[r].ios)) =>
            /\ (req[r].kind = "height"
                  /\ HeightKey(req[r].height) \notin DOMAIN db.height_to_digest)
                  => EmptyResult(Resp(r))
            /\ (req[r].kind = "height"
                  /\ HeightKey(req[r].height) \in DOMAIN db.height_to_digest
                  /\ ResolvedDigest(r) \notin DOMAIN db.pages)
                  => EmptyResult(Resp(r))
            /\ (req[r].kind = "digest"
                  /\ DigestKey(req[r].digest).ok
                  /\ DigestKey(req[r].digest).val \notin DOMAIN db.pages)
                  => EmptyResult(Resp(r))

\* C2 witness: a height request whose digest has no pages entry, answered.
C2Witness ==
    \E r \in Calls :
        /\ Resolved(r) /\ AllOk(req[r].ios)
        /\ ResolvedDigest(r) \notin DOMAIN db.pages
        /\ EmptyResult(Resp(r))

\* ------------------------------------------------------------------------
\* C3  Numeric rendering
\* ------------------------------------------------------------------------

\* The nouns a well-formed stored record was made of.
RecordNouns(rec) == IF StartsWith(rec, RecA) THEN NounsA ELSE NounsB

\* The decimal string of an atom of any size; the placeholder for a cell.
Numeric(noun, text) ==
    IF IsAtom(noun) THEN text = MagDigits(noun[2]) ELSE StartsWith(text, NotAtomText)

\* C3 as claimed: in every block answered, timestamp, epoch_counter and height
\* are the exact decimal strings of the atoms in slots 5, 6 and 9 of the stored
\* record, and the placeholder for a slot that is not an atom.
C3Claim ==
    \A r \in Calls :
        (Done(r) /\ Resp(r).ok /\ Resp(r).block # <<>>) =>
            /\ Numeric(RecordNouns(req[r].page_bytes[1])[6], Resp(r).block[1].timestamp)
            /\ Numeric(RecordNouns(req[r].page_bytes[1])[7], Resp(r).block[1].epoch_counter)
            /\ Numeric(RecordNouns(req[r].page_bytes[1])[10], Resp(r).block[1].height)

\* ------------------------------------------------------------------------
\* C8  Digest key interpretation
\* ------------------------------------------------------------------------

\* The key each digest string asked for stands for: <<>> where the string
\* begins with "0x_" and the rest is not hex.
ExpectedKey(s) ==
    CASE s = <<48, 120, 95, 97, 98, 49, 50>> -> <<KeyHex>>
      [] s = <<48, 120, 95, 65, 66, 49, 50>> -> <<KeyHex>>
      [] s = <<97, 98>> -> <<KeyRaw>>
      [] s = <<48, 120, 95, 54, 49, 54, 50>> -> <<KeyRaw>>
      [] s = <<48, 120, 95, 51, 48, 55, 56, 53, 102, 54, 49, 54, 50, 51, 49, 51, 50>> -> <<KeyAmb>>
      [] s = <<48, 120, 95, 97, 98, 99>> -> <<>>
      [] s = <<48, 120, 95, 122, 122>> -> <<>>
      [] s = <<122, 122>> -> << <<122, 122>> >>
      [] s = <<48, 120, 95>> -> << <<>> >>

\* C8: a digest request reads pages at the hex-decoded rest of a string that
\* begins with "0x_" and at the bytes of any other string; when the rest is
\* not hex it ends with the invalid-argument "Hex decode error" and has read
\* nothing from the store.
C8DigestKey ==
    \A r \in Calls :
        (req[r].kind = "digest" /\ req[r].pc \notin {"idle", "resolve"}) =>
            IF ExpectedKey(req[r].digest) = <<>>
            THEN /\ Done(r)
                 /\ req[r].ios = <<>>
                 /\ ~Resp(r).ok /\ Resp(r).block = <<>>
                 /\ Resp(r).status # <<>>
                 /\ Resp(r).status[1].code = "InvalidArgument"
                 /\ Resp(r).status[1].text = "Hex decode error"
            ELSE /\ req[r].key = ExpectedKey(req[r].digest)
                 /\ (req[r].ios # <<>> /\ AllOk(req[r].ios)) =>
                       req[r].page_bytes =
                           IF req[r].key[1] \in DOMAIN db.pages
                           THEN <<db.pages[req[r].key[1]]>> ELSE <<>>

\* C8 witness: a request for "0x_zz" ended, and a request for "0x_AB12" that
\* has read its entry.
C8Witness ==
    \E r1, r2 \in Calls :
        /\ req[r1].kind = "digest" /\ Done(r1)
        /\ req[r1].digest = <<48, 120, 95, 122, 122>>
        /\ req[r2].kind = "digest" /\ req[r2].digest = <<48, 120, 95, 65, 66, 49, 50>>
        /\ req[r2].page_bytes # <<>>

\* ------------------------------------------------------------------------
\* C9  Request stage ordering
\* ------------------------------------------------------------------------

\* The stored records from_bytes takes.
WellFormed(rec) == rec \in {RecA, RecB, RecBTrail}

\* C9 as claimed: a request ends with the empty result only before a pages
\* entry was fetched; after it, a record that does not decode ends the request
\* with an internal or invalid-data error and no block.
C9Claim ==
    \A r \in Calls :
        Done(r) =>
            /\ EmptyResult(Resp(r)) => req[r].page_bytes = <<>>
            /\ (req[r].page_bytes # <<>> /\ ~WellFormed(req[r].page_bytes[1])) =>
                  /\ ~Resp(r).ok /\ Resp(r).block = <<>>
                  /\ Resp(r).status # <<>>
                  /\ \/ Resp(r).status[1].code = "Internal"
                     \/ Resp(r).status[1].text = "Invalid data"

\* C9 as amended: a request ends with the empty result only before a pages
\* entry was fetched; after it, a record that does not decode ends the request
\* with an error and no block: the invalid-argument "Invalid data" error for
\* Truncated and FieldTooLarge, the resource-exhausted "Memory error" for
\* DeserializeFailed.
C9StageOrdering ==
    \A r \in Calls :
        Done(r) =>
            /\ EmptyResult(Resp(r)) => req[r].page_bytes = <<>>
            /\ (req[r].page_bytes # <<>> /\ ~WellFormed(req[r].page_bytes[1])) =>
                  /\ ~Resp(r).ok /\ Resp(r).block = <<>>
                  /\ Resp(r).status # <<>>
                  /\ \/ /\ Resp(r).status[1].code = "InvalidArgument"
                        /\ Resp(r).status[1].text = "Invalid data"
                        /\ req[r].page_bytes[1] # RecABadPow
                     \/ /\ Resp(r).status[1].code = "ResourceExhausted"
                        /\ Resp(r).status[1].text = "Memory error"
                        /\ req[r].page_bytes[1] = RecABadPow

\* C9 witness: a request that fetched a record cue rejects, ended.
C9Witness ==
    \E r \in Calls :
        /\ Done(r)
        /\ req[r].page_bytes = <<RecABadPow>>
        /\ Resp(r).status # <<>>
        /\ Resp(r).status[1].code = "ResourceExhausted"

\* ------------------------------------------------------------------------
\* C10  Request isolation
\* ------------------------------------------------------------------------

\* Each call in flight holds a live arena no other call holds, and a call that
\* ended answers as it would have answered alone.
Isolated ==
    /\ \A r1, r2 \in Calls :
          (r1 # r2 /\ req[r1].pc # "idle" /\ req[r2].pc # "idle")
              => req[r1].stack # req[r2].stack
    /\ \A r \in Calls : req[r].pc # "idle" => arenas[req[r].stack] # <<>>
    /\ \A r \in Calls : Done(r) => Resp(r) = RunAlone(req[r])

\* C10: under every interleaving of the calls the store is never changed, each
\* call uses an arena it alone allocated, and each response is the response of
\* the same request served alone on the same store.
C10Isolation == []Isolated /\ [][db' = db]_vars

\* C10 witness: one call answered with a block while another, of a different
\* arena, is between its decode and its render.
C10Witness ==
    \E r1, r2 \in Calls :
        /\ Done(r1) /\ Resp(r1).ok /\ Resp(r1).block # <<>>
        /\ req[r2].pc = "render"
        /\ req[r1].stack # req[r2].stack
        /\ StackOf(arenas, req[r1].stack) # <<>>
        /\ StackOf(arenas, req[r2].stack) # <<>>

=============================================================================
